---- MODULE Spec2Model ----
(***************************************************************************)
(* NIYAMR AI - Universal Credit Act analyzer.                              *)
(*                                                                         *)
(* A model of class UniversalCreditActAnalyzer (src/main_run.py and        *)
(* src/app.py hold the same five methods; the two report builders and the  *)
(* two drivers, run() and the Streamlit main(), differ) and of the          *)
(* drivers that call it.                                                   *)
(*                                                                         *)
(* A Python str is a sequence of characters, each character a one-letter   *)
(* TLA+ string; the characters that have no TLA+ spelling are named below. *)
(***************************************************************************)
EXTENDS Integers, Sequences, FiniteSets, TLC

VARIABLES
    program,        \* whose class and report builder: "main_run" or "app"
    driver,         \* who calls the methods: "run" (main_run.py's main and run),
                    \* "main" (app.py's Streamlit main) or "client" (any caller)
    pc,             \* the driver's position
    count,          \* driver steps counted: a client's calls, the shell's analyses
    pdf,            \* the file at pdf_path: [kind, pages], pages being what
                    \* page.extract_text() returns for each page
    model,          \* self.model
    response,       \* response['response'] of the last ollama.generate
    text,           \* self.text
    results,        \* self.results, a dict
    report,         \* what generate_report returned last: <<>> or <<report>>
    files,          \* the files main_run.py's generate_report wrote, a dict
    raised,         \* the exception the last call raised, "none" when it returned
    session_state,  \* app.py's st.session_state, a dict
    tmp_file,       \* app.py: the temporary PDF of the rerun: "none", "exists", "deleted"
    arg,            \* the arguments of a function applied on its own
    ret             \* and what it returned

vars == <<program, driver, pc, count, pdf, model, response, text, results, report,
          files, raised, session_state, tmp_file, arg, ret>>

----------------------------------------------------------------------------
(* Characters *)

LF == "\n"
TAB == "\t"
CR == "\r"
\* U+0130, LATIN CAPITAL LETTER I WITH DOT ABOVE: str.lower() turns it into two
\* characters, "i" and U+0307 (COMBINING DOT ABOVE)
IDOT == "U+0130"
COMBDOT == "U+0307"
\* U+2013, EN DASH
ENDASH == "U+2013"

UpperLetters == <<"A","B","C","D","E","F","G","H","I","J","K","L","M",
                  "N","O","P","Q","R","S","T","U","V","W","X","Y","Z">>
LowerLetters == <<"a","b","c","d","e","f","g","h","i","j","k","l","m",
                  "n","o","p","q","r","s","t","u","v","w","x","y","z">>
UpperSet == {UpperLetters[k] : k \in 1..26}
ToLowerLetter == [c \in UpperSet |-> LowerLetters[CHOOSE k \in 1..26 : UpperLetters[k] = c]]

\* str.isspace() and the regular expression class \s, on the model's characters
Whitespace == {" ", LF, TAB, CR}
\* the regular expression class \d, on the model's characters
Digits == {"0","1","2","3","4","5","6","7","8","9"}

Min(a, b) == IF a <= b THEN a ELSE b
Max(a, b) == IF a >= b THEN a ELSE b
Least(S) == CHOOSE x \in S : \A y \in S : x <= y

----------------------------------------------------------------------------
(* Python's str operations *)

\* str.lower() of one character: a sequence, since U+0130 becomes two characters
LowerChar(c) ==
    IF c = IDOT THEN <<"i", COMBDOT>>
    ELSE IF c \in UpperSet THEN <<ToLowerLetter[c]>>
    ELSE <<c>>

\* str.lower()
RECURSIVE str_lower(_)
str_lower(s) ==
    IF Len(s) = 0 THEN <<>>
    ELSE IF Len(s) = 1 THEN LowerChar(s[1])
    ELSE LET m == Len(s) \div 2
         IN  str_lower(SubSeq(s, 1, m)) \o str_lower(SubSeq(s, m + 1, Len(s)))

\* sub occurs in s at the 1-based index i
OccursAt(s, i, sub) ==
    /\ i >= 1
    /\ i + Len(sub) - 1 <= Len(s)
    /\ \A j \in 1..Len(sub) : s[i + j - 1] = sub[j]

\* sub in s
str_contains(s, sub) == \E i \in 1..(Len(s) - Len(sub) + 1) : OccursAt(s, i, sub)

\* s.find(sub): the 0-based offset of the first occurrence, -1 when there is none
str_find(s, sub) ==
    LET hits == {i \in 1..(Len(s) - Len(sub) + 1) : OccursAt(s, i, sub)}
    IN  IF hits = {} THEN -1 ELSE Least(hits) - 1

\* s[start:end] for 0 <= start and 0 <= end: Python clamps both to len(s), and
\* the slice is empty when start >= end
str_slice(s, start, end) == SubSeq(s, Min(start, Len(s)) + 1, Min(end, Len(s)))

\* s.startswith(prefix)
str_startswith(s, prefix) == OccursAt(s, 1, prefix)

\* the last index of the longest run of characters of class cls that starts at
\* index i (i - 1 when s[i] is not in cls): a greedy cls*
RunEnd(s, i, cls) ==
    CHOOSE k \in (i - 1)..Max(Len(s), i - 1) :
        /\ \A j \in i..k : s[j] \in cls
        /\ (k >= Len(s) \/ s[k + 1] \notin cls)

\* the first index of the run of the character s[i] that holds index i
RunStart(s, i) ==
    CHOOSE k \in 1..i :
        /\ \A j \in k..i : s[j] = s[i]
        /\ (k = 1 \/ s[k - 1] # s[i])

\* s.strip()
str_strip(s) ==
    LET first == RunEnd(s, 1, Whitespace) + 1
        keep == {i \in first..Len(s) : s[i] \notin Whitespace}
    IN  IF keep = {} THEN <<>>
        ELSE SubSeq(s, first, CHOOSE x \in keep : \A y \in keep : y <= x)

\* s.split('\n'): the pieces between line feeds, always at least one piece
RECURSIVE str_split_lines(_)
str_split_lines(s) ==
    LET breaks == {i \in 1..Len(s) : s[i] = LF}
    IN  IF breaks = {} THEN <<s>>
        ELSE LET b == Least(breaks)
             IN  <<SubSeq(s, 1, b - 1)>> \o str_split_lines(SubSeq(s, b + 1, Len(s)))

\* sep.join(parts)
RECURSIVE str_join(_, _)
str_join(sep, parts) ==
    IF Len(parts) = 0 THEN <<>>
    ELSE IF Len(parts) = 1 THEN parts[1]
    ELSE parts[1] \o sep \o str_join(sep, Tail(parts))

----------------------------------------------------------------------------
(* Python's re, for the four patterns of the program *)

\* re.sub(c{atleast,}, c * becomes, s): each maximal run of the character c of
\* length atleast or more is replaced by a run of length becomes
RECURSIVE SubRuns(_, _, _, _, _, _)
SubRuns(s, c, atleast, becomes, lo, hi) ==
    IF lo > hi THEN <<>>
    ELSE IF lo = hi
         THEN IF s[lo] # c THEN <<s[lo]>>
              ELSE LET first == RunStart(s, lo)
                       last == RunEnd(s, lo, {c})
                   IN  IF last - first + 1 < atleast \/ lo - first + 1 <= becomes
                       THEN <<s[lo]>> ELSE <<>>
         ELSE LET m == (lo + hi) \div 2
              IN  SubRuns(s, c, atleast, becomes, lo, m)
                    \o SubRuns(s, c, atleast, becomes, m + 1, hi)

re_sub_runs(s, c, atleast, becomes) == SubRuns(s, c, atleast, becomes, 1, Len(s))

\* how re.IGNORECASE folds one character: the simple lower case, which for
\* U+0130 is "i"
FoldChar(c) ==
    IF c = IDOT THEN "i" ELSE IF c \in UpperSet THEN ToLowerLetter[c] ELSE c

\* the literal word matches s at index i under re.IGNORECASE
WordAt(s, i, word) ==
    /\ i + Len(word) - 1 <= Len(s)
    /\ \A j \in 1..Len(word) : FoldChar(s[i + j - 1]) = FoldChar(word[j])

\* the index after the first of the alternatives (in order) that matches at i,
\* for alternatives no two of which match at the same place; 0 when none does
AlternativeEnd(s, i, words) ==
    LET ok == {k \in 1..Len(words) : WordAt(s, i, words[k])}
    IN  IF ok = {} THEN 0 ELSE i + Len(words[Least(ok)])

NoMatch == [found |-> FALSE, group |-> <<>>]
Match(s, first, last) == [found |-> TRUE, group |-> SubSeq(s, first, last)]

----------------------------------------------------------------------------
(* The program's tables and literals *)


\* extract_sections: the keywords of each of the 7 categories, in table order
section_types ==
  [ definitions |-> <<
        <<"d","e","f","i","n","i","t","i","o","n">>,
        <<"m","e","a","n","s">>,
        <<"i","n","t","e","r","p","r","e","t">>>>,
    obligations |-> <<
        <<"o","b","l","i","g","a","t","i","o","n">>,
        <<"m","u","s","t">>,
        <<"s","h","a","l","l">>>>,
    responsibilities |-> <<
        <<"r","e","s","p","o","n","s","i","b","i","l","i","t","y">>,
        <<"d","u","t","y">>,
        <<"a","u","t","h","o","r","i","t","y">>>>,
    eligibility |-> <<
        <<"e","l","i","g","i","b","l","e">>,
        <<"q","u","a","l","i","f","y">>,
        <<"e","n","t","i","t","l","e">>>>,
    payments |-> <<
        <<"p","a","y","m","e","n","t">>,
        <<"a","m","o","u","n","t">>,
        <<"c","a","l","c","u","l","a","t","e">>,
        <<"b","e","n","e","f","i","t">>>>,
    penalties |-> <<
        <<"p","e","n","a","l","t","y">>,
        <<"f","i","n","e">>,
        <<"e","n","f","o","r","c","e">>,
        <<"o","f","f","e","n","c","e">>>>,
    record_keeping |-> <<
        <<"r","e","c","o","r","d">>,
        <<"r","e","p","o","r","t">>,
        <<"m","a","i","n","t","a","i","n">>>> ]

\* _find_evidence: the header names of a category, in the order of the alternation
section_names ==
  [ definitions |-> <<
        <<"D","e","f","i","n","i","t","i","o","n","s">>>>,
    eligibility |-> <<
        <<"E","l","i","g","i","b","i","l","i","t","y">>>>,
    responsibilities |-> <<
        <<"R","e","s","p","o","n","s","i","b","i","l","i","t","i","e","s">>>>,
    penalties |-> <<
        <<"P","e","n","a","l","t","i","e","s">>,
        <<"E","n","f","o","r","c","e","m","e","n","t">>>>,
    payments |-> <<
        <<"P","a","y","m","e","n","t","s">>,
        <<"B","e","n","e","f","i","t","s">>>>,
    record_keeping |-> <<
        <<"R","e","c","o","r","d","s">>,
        <<"R","e","p","o","r","t","i","n","g">>>> ]

\* _find_section: what a category without a matching keyword gets
NotFound == <<"N","o","t"," ","f","o","u","n","d">>

\* check_rules, _find_evidence: the text looked for in the lowered snippet
not_found_lower == <<"n","o","t"," ","f","o","u","n","d">>

\* _find_evidence: the three fixed results
NoEvidenceFound == <<"N","o"," ","e","v","i","d","e","n","c","e"," ","f","o","u","n","d">>
EvidenceFoundInDocument == <<"E","v","i","d","e","n","c","e"," ","f","o","u","n","d"," ","i","n"," ","d","o","c","u","m","e","n","t">>

\* _find_section: what joins the windows
Ellipsis == <<" ",".",".","."," ">>

\* extract_text: what joins the pages
PageSeparator == <<LF,LF>>

\* _find_evidence: (Section|Part|Article) and (Section|Part)
CitationLabels == <<<<"S","e","c","t","i","o","n">>, <<"P","a","r","t">>, <<"A","r","t","i","c","l","e">>>>
HeaderLabels == <<<<"S","e","c","t","i","o","n">>, <<"P","a","r","t">>>>

Categories == DOMAIN section_types

\* check_rules: the 6 rules, (rule_text, section_key), in order
rules ==
    << <<"Act must define key terms", "definitions">>,
       <<"Act must specify eligibility criteria", "eligibility">>,
       <<"Act must specify responsibilities of the administering authority",
         "responsibilities">>,
       <<"Act must include enforcement or penalties", "penalties">>,
       <<"Act must include payment calculation or entitlement structure", "payments">>,
       <<"Act must include record-keeping or reporting requirements",
         "record_keeping">> >>

\* _find_section: the characters taken before and after the keyword's offset
HalfWindow == 200
\* _find_section: findings[:2]
MaxFindings == 2
\* check_rules: len(section_content) > 50
ContentThreshold == 50
\* check_rules: the two confidence values
PassConfidence == 85
FailConfidence == 40

----------------------------------------------------------------------------
(* The methods of UniversalCreditActAnalyzer, as functions of what they read *)

\* a variant whose second pattern replaces a run of spaces by nothing
NormalizeText_drop_spaces(raw) == re_sub_runs(re_sub_runs(raw, LF, 3, 2), " ", 2, 0)

\* extract_text: the two re.sub calls on the joined pages
NormalizeText(raw) == re_sub_runs(re_sub_runs(raw, LF, 3, 2), " ", 2, 1)

\* extract_text: self.text for the pages of the PDF
extract_text(pdf_pages) == NormalizeText(str_join(PageSeparator, pdf_pages))

\* summarize: the bullets kept from response['response']
RECURSIVE Bullets(_)
Bullets(lines) ==
    IF Len(lines) = 0 THEN <<>>
    ELSE LET line == str_strip(Head(lines))
         IN  (IF str_startswith(line, <<"-">>) THEN <<line>> ELSE <<>>)
               \o Bullets(Tail(lines))

\* a variant that keeps the lines that start with '-' as they are, untrimmed
summarize_unstripped(resp) ==
    SelectSeq(str_split_lines(resp), LAMBDA line : str_startswith(line, <<"-">>))

summarize(resp) == Bullets(str_split_lines(resp))

\* _find_section: the findings list, one window per keyword that occurs
RECURSIVE Findings(_, _, _)
Findings(doc, text_lower, keywords) ==
    IF Len(keywords) = 0 THEN <<>>
    ELSE LET pos == str_find(text_lower, Head(keywords))
             start == Max(0, pos - HalfWindow)
             end == Min(Len(doc), pos + HalfWindow)
         IN  (IF pos # -1 THEN <<str_slice(doc, start, end)>> ELSE <<>>)
               \o Findings(doc, text_lower, Tail(keywords))

\* a variant that joins the findings without looking whether there are any
_find_section_unguarded(doc, keywords) ==
    LET findings == Findings(doc, str_lower(doc), keywords)
    IN  str_join(Ellipsis, SubSeq(findings, 1, Min(MaxFindings, Len(findings))))

_find_section(doc, keywords) ==
    LET findings == Findings(doc, str_lower(doc), keywords)
    IN  IF Len(findings) > 0
        THEN str_join(Ellipsis, SubSeq(findings, 1, Min(MaxFindings, Len(findings))))
        ELSE NotFound

\* extract_sections: self.results['sections']
extract_sections(doc) ==
    [section_name \in Categories |-> _find_section(doc, section_types[section_name])]

\* _find_evidence: where a match of (Section|Part|Article)\s+\d+ that starts at
\* index i ends, 0 when there is none
CitationEnd(s, i) ==
    LET a == AlternativeEnd(s, i, CitationLabels)
        b == RunEnd(s, a, Whitespace)
        c == RunEnd(s, b + 1, Digits)
    IN  IF a # 0 /\ b >= a /\ c >= b + 1 THEN c ELSE 0

\* re.search(r'(Section|Part|Article)\s+\d+', s, re.IGNORECASE)
SearchCitation(s) ==
    LET starts == {i \in 1..Len(s) : CitationEnd(s, i) # 0}
    IN  IF starts = {} THEN NoMatch
        ELSE Match(s, Least(starts), CitationEnd(s, Least(starts)))

\* a variant whose separator may be absent: (Section|Part)\s+\d+\s*[-ENDASH]?\s*(names)
HeaderEnd_optional_separator(s, i, names) ==
    LET a == AlternativeEnd(s, i, HeaderLabels)
        b == RunEnd(s, a, Whitespace)
        c == RunEnd(s, b + 1, Digits)
        d == RunEnd(s, c + 1, Whitespace)
        e == IF d + 1 <= Len(s) /\ s[d + 1] \in {"-", ENDASH}
             THEN RunEnd(s, d + 2, Whitespace) ELSE d
        f == AlternativeEnd(s, e + 1, names)
    IN  IF a # 0 /\ b >= a /\ c >= b + 1 /\ f # 0
        THEN f - 1 ELSE 0

\* _find_evidence: where a match of (Section|Part)\s+\d+\s*[-ENDASH]\s*(names)
\* that starts at index i ends, 0 when there is none
HeaderEnd(s, i, names) ==
    LET a == AlternativeEnd(s, i, HeaderLabels)
        b == RunEnd(s, a, Whitespace)
        c == RunEnd(s, b + 1, Digits)
        d == RunEnd(s, c + 1, Whitespace)
        e == RunEnd(s, d + 2, Whitespace)
        f == AlternativeEnd(s, e + 1, names)
    IN  IF /\ a # 0 /\ b >= a /\ c >= b + 1
           /\ d + 1 <= Len(s) /\ s[d + 1] \in {"-", ENDASH}
           /\ f # 0
        THEN f - 1 ELSE 0

\* re.search(pattern, s, re.IGNORECASE) for that pattern
SearchHeader(s, names) ==
    LET starts == {i \in 1..Len(s) : HeaderEnd(s, i, names) # 0}
    IN  IF starts = {} THEN NoMatch
        ELSE Match(s, Least(starts), HeaderEnd(s, Least(starts), names))

\* a variant that looks for a header of the document before a citation in the
\* snippet
_find_evidence_header_first(snippet, section_type, doc) ==
    IF Len(snippet) = 0 \/ str_contains(str_lower(snippet), not_found_lower)
    THEN NoEvidenceFound
    ELSE LET names == IF section_type \in DOMAIN section_names
                      THEN section_names[section_type] ELSE << <<>> >>
             header == SearchHeader(doc, names)
             match == SearchCitation(snippet)
         IN  IF header.found THEN str_strip(header.group)
             ELSE IF match.found THEN match.group
             ELSE EvidenceFoundInDocument

\* _find_evidence(text, section_type), doc being self.text; a section_type
\* without header names gives the empty alternation ()
_find_evidence(snippet, section_type, doc) ==
    IF Len(snippet) = 0 \/ str_contains(str_lower(snippet), not_found_lower)
    THEN NoEvidenceFound
    ELSE LET match == SearchCitation(snippet)
         IN  IF match.found THEN match.group
             ELSE LET names == IF section_type \in DOMAIN section_names
                               THEN section_names[section_type] ELSE << <<>> >>
                      header == SearchHeader(doc, names)
                  IN  IF header.found THEN str_strip(header.group)
                      ELSE EvidenceFoundInDocument

\* a variant that asks for 50 characters or more, and one that takes a missing
\* category for a blank snippet
RuleResult_at_least(rule, sections, doc) ==
    LET section_content == IF rule[2] \in DOMAIN sections THEN sections[rule[2]] ELSE <<>>
        has_content ==
            /\ Len(section_content) >= ContentThreshold
            /\ ~str_contains(str_lower(section_content), not_found_lower)
    IN  [rule |-> rule[1],
         status |-> IF has_content THEN "pass" ELSE "fail",
         evidence |-> _find_evidence(section_content, rule[2], doc),
         confidence |-> IF has_content THEN PassConfidence ELSE FailConfidence]

RuleResult_blank_default(rule, sections, doc) ==
    LET section_content == IF rule[2] \in DOMAIN sections THEN sections[rule[2]] ELSE <<" ">>
        has_content ==
            /\ Len(section_content) > ContentThreshold
            /\ ~str_contains(str_lower(section_content), not_found_lower)
    IN  [rule |-> rule[1],
         status |-> IF has_content THEN "pass" ELSE "fail",
         evidence |-> _find_evidence(section_content, rule[2], doc),
         confidence |-> IF has_content THEN PassConfidence ELSE FailConfidence]

\* a variant whose verdict looks at the length of the snippet only
RuleResult_length_only(rule, sections, doc) ==
    LET section_content == IF rule[2] \in DOMAIN sections THEN sections[rule[2]] ELSE <<>>
        has_content == Len(section_content) > ContentThreshold
    IN  [rule |-> rule[1],
         status |-> IF has_content THEN "pass" ELSE "fail",
         evidence |-> _find_evidence(section_content, rule[2], doc),
         confidence |-> IF has_content THEN PassConfidence ELSE FailConfidence]

\* check_rules: the result of one rule
RuleResult(rule, sections, doc) ==
    LET section_content == IF rule[2] \in DOMAIN sections THEN sections[rule[2]] ELSE <<>>
        has_content ==
            /\ Len(section_content) > ContentThreshold
            /\ ~str_contains(str_lower(section_content), not_found_lower)
    IN  [rule |-> rule[1],
         status |-> IF has_content THEN "pass" ELSE "fail",
         evidence |-> _find_evidence(section_content, rule[2], doc),
         confidence |-> IF has_content THEN PassConfidence ELSE FailConfidence]

\* check_rules: self.results['rule_checks'] for self.results['sections']
check_rules(sections, doc) == [k \in 1..Len(rules) |-> RuleResult(rules[k], sections, doc)]

----------------------------------------------------------------------------
(* Python dicts: a function on the keys the dict holds *)

EmptyDict == [k \in {} |-> <<>>]
DictSet(d, key, value) == [k \in DOMAIN d \cup {key} |-> IF k = key THEN value ELSE d[k]]
DictGet(d, key, default) == IF key \in DOMAIN d THEN d[key] ELSE default

----------------------------------------------------------------------------
(* The inputs *)

\* the pages of a PDF
MaxPages == 2
\* the calls a client makes on one analyzer
MaxCalls == 2
\* the analyses of one Streamlit session
MaxAnalyses == 2

\* a page of Scenario B: one category's keyword with a citation beside it
PageEligibility ==
    <<"t","h","e"," ","e","l","i","g","i","b","i","l","i","t","y"," ","c","r","i","t","e",
      "r","i","a"," ","u","n","d","e","r"," ","S","e","c","t","i","o","n"," ","1","4"," ",
      "r","e","q","u","i","r","e"," ","t","h","a","t"," ","a"," ","c","l","a","i","m","a",
      "n","t"," ","m","u","s","t"," ","q","u","a","l","i","f","y"," ","b","y">>
\* a page with runs of spaces and line feeds, and keywords of two categories
PagePenalties ==
    <<"P","e","n","a","l","t","i","e","s",":"," "," "," ","a"," ","f","i","n","e",LF,LF,
      LF,LF,"r","e","c","o","r","d">>
\* a response with two bullet lines among others, and one with none
ResponseBullets ==
    <<"S","u","m","m","a","r","y",":",LF," ","-"," ","P","u","r","p","o","s","e"," "," ",
      LF,LF,"-","K","e","y"," ","d","e","f","i","n","i","t","i","o","n","s">>
ResponsePlain ==
    <<"N","o"," ","b","u","l","l","e","t"," ","p","o","i","n","t","s"," ","h","e","r","e",
      ".",LF," ","*"," ","n","o","n","e">>

PageTexts == {<<>>, PageEligibility, PagePenalties}

RECURSIVE PageLists(_)
PageLists(n) ==
    IF n = 0 THEN {<<>>}
    ELSE LET shorter == PageLists(n - 1)
         IN  shorter \cup {Append(p, t) : p \in {q \in shorter : Len(q) = n - 1}, t \in PageTexts}

NoPages == <<>>
\* the file at pdf_path: readable, absent, or not a PDF PyPDF2 can read
Pdfs ==
    {[kind |-> "ok", pages |-> p] : p \in PageLists(MaxPages)}
      \cup {[kind |-> "missing", pages |-> NoPages], [kind |-> "corrupt", pages |-> NoPages]}
\* the file a client's analyzer is given
ClientPdfs ==
    {[kind |-> "ok", pages |-> <<PageEligibility>>], [kind |-> "ok", pages |-> NoPages],
     [kind |-> "missing", pages |-> NoPages]}
\* the file uploaded to the Streamlit shell
Uploads ==
    {[kind |-> "ok", pages |-> <<PageEligibility>>], [kind |-> "ok", pages |-> <<PagePenalties>>],
     [kind |-> "corrupt", pages |-> NoPages]}

\* app.py: the models of the selectbox; main_run.py's MODEL is the first
Models == {"llama3.2", "mistral", "llama2"}
DefaultModel == "llama3.2"

Responses == {ResponseBullets, ResponsePlain}

----------------------------------------------------------------------------
(* generate_report *)

\* main_run.py: the report, which json.dump writes to output_path
MainRunReport(mdl, doc, res) ==
    [metadata |-> [document |-> "Universal Credit Act 2025",
                   analyzer |-> "NIYAMR AI Agent",
                   model |-> mdl],
     task1_extraction |-> [status |-> "completed",
                           characters_extracted |-> Len(doc),
                           extracted_text |-> doc],
     task2_summary |-> DictGet(res, "summary", <<>>),
     task3_sections |-> DictGet(res, "sections", EmptyDict),
     task4_rule_checks |-> DictGet(res, "rule_checks", <<>>)]

\* app.py: the report; now is datetime.now(), formatted
AppReport(mdl, doc, res, now) ==
    [metadata |-> [document |-> "Universal Credit Act 2025",
                   analyzer |-> "NIYAMR AI Agent",
                   model |-> mdl,
                   timestamp |-> now],
     task1_extraction |-> [status |-> "completed",
                           characters_extracted |-> Len(doc)],
     task2_summary |-> DictGet(res, "summary", <<>>),
     task3_sections |-> DictGet(res, "sections", EmptyDict),
     task4_rule_checks |-> DictGet(res, "rule_checks", <<>>)]

\* a variant that reads the sections under a key the dict never holds
generate_report_wrong_key(prog, mdl, doc, res, now) ==
    LET others == [k \in DOMAIN res \ {"sections"} |-> res[k]]
    IN  IF prog = "main_run" THEN MainRunReport(mdl, doc, others)
        ELSE AppReport(mdl, doc, others, now)

generate_report(prog, mdl, doc, res, now) ==
    IF prog = "main_run" THEN MainRunReport(mdl, doc, res) ELSE AppReport(mdl, doc, res, now)

\* main_run.py, _save_summary_file: what the text file shows
SummaryFile(mdl, doc, res) ==
    [model |-> mdl,
     characters |-> Len(doc),
     summary |-> DictGet(res, "summary", <<>>),
     sections |-> DictGet(res, "sections", EmptyDict),
     rule_checks |-> DictGet(res, "rule_checks", <<>>)]

\* main_run.py, generate_report: the two files written
WrittenFiles(mdl, doc, res) ==
    [name \in {"output_report.json", "output_report_summary.txt"} |->
        IF name = "output_report.json" THEN MainRunReport(mdl, doc, res)
        ELSE SummaryFile(mdl, doc, res)]

----------------------------------------------------------------------------
(* The drivers *)

\* main_run.py, run(): the order of the calls; app.py, main(): the same four
\* stages, then the report is built and stored
AfterStage(stage) ==
    CASE stage = "extract_text" -> "summarize"
      [] stage = "summarize" -> "extract_sections"
      [] stage = "extract_sections" -> "check_rules"
      [] stage = "check_rules" -> IF driver = "run" THEN "generate_report" ELSE "store"
      [] stage = "generate_report" -> "done"

\* the driver is about to call the method
Calling(method) ==
    \/ driver = "client" /\ pc = "client" /\ count < MaxCalls
    \/ driver # "client" /\ pc = method

\* the method returned: the driver goes on
Returns(method) ==
    /\ raised' = "none"
    /\ pc' = IF driver = "client" THEN "client" ELSE AfterStage(method)
    /\ count' = IF driver = "client" THEN count + 1 ELSE count

\* a variant in which app.py's main() has no finally clause: after an exception
\* the shell waits for the next analysis
Raises_without_finally(exception) ==
    /\ raised' = exception
    /\ pc' = CASE driver = "run" -> "aborted"
               [] driver = "main" -> "idle"
               [] driver = "client" -> "client"
    /\ count' = IF driver = "client" THEN count + 1 ELSE count

\* the method raised: run() and main_run.py's main() have no handler, so the
\* exception ends the process; app.py's main() catches it, shows the error and
\* goes to its finally clause; a client is left with the analyzer as it is
Raises(exception) ==
    /\ raised' = exception
    /\ pc' = CASE driver = "run" -> "aborted"
               [] driver = "main" -> "finally"
               [] driver = "client" -> "client"
    /\ count' = IF driver = "client" THEN count + 1 ELSE count

NewAnalyzer ==
    /\ text' = <<>>
    /\ results' = EmptyDict

\* datetime.now(): the clock read as the driver steps taken so far
Now == count

----------------------------------------------------------------------------
(* The state after construction *)

Init ==
    /\ \/ program = "main_run" /\ driver = "run" /\ pc = "main" /\ pdf \in Pdfs
       \/ program = "app" /\ driver = "main" /\ pc = "idle"
            /\ pdf = [kind |-> "missing", pages |-> NoPages]
       \/ program \in {"main_run", "app"} /\ driver = "client" /\ pc = "client"
            /\ pdf \in ClientPdfs
    /\ count = 0
    /\ model = DefaultModel
    /\ response = <<>>
    /\ text = <<>>
    /\ results = EmptyDict
    /\ report = <<>>
    /\ files = EmptyDict
    /\ raised = "none"
    /\ session_state = EmptyDict
    /\ tmp_file = "none"
    /\ arg = <<>>
    /\ ret = <<>>

----------------------------------------------------------------------------
(* The operations *)

\* main_run.py, main(): the PDF is looked for, then the analyzer is made and run
MainRunStart ==
    /\ driver = "run" /\ pc = "main"
    /\ pc' = IF pdf.kind = "missing" THEN "returned" ELSE "extract_text"
    /\ NewAnalyzer
    /\ UNCHANGED <<program, driver, count, pdf, model, response, report, files,
                   raised, session_state, tmp_file, arg, ret>>

\* extract_text(): open() or PdfReader raises on a file that is absent or no PDF
ExtractText ==
    /\ Calling("extract_text")
    /\ IF pdf.kind = "ok"
       THEN /\ text' = extract_text(pdf.pages)
            /\ Returns("extract_text")
       ELSE /\ Raises(IF pdf.kind = "missing" THEN "FileNotFoundError" ELSE "PdfReadError")
            /\ UNCHANGED text
    /\ UNCHANGED <<program, driver, pdf, model, response, results, report, files,
                   session_state, tmp_file, arg, ret>>

\* summarize(): ollama.generate answers with one of the responses
SummarizeWith(responses) ==
    /\ Calling("summarize")
    /\ \E resp \in responses :
        /\ response' = resp
        /\ results' = DictSet(results, "summary", summarize(resp))
    /\ Returns("summarize")
    /\ UNCHANGED <<program, driver, pdf, model, text, report, files,
                   session_state, tmp_file, arg, ret>>

Summarize == SummarizeWith(Responses)

\* summarize(): ollama.generate raises (the service is down, the model unknown)
SummarizeRaises ==
    /\ Calling("summarize")
    /\ Raises("ResponseError")
    /\ UNCHANGED <<program, driver, pdf, model, response, text, results, report, files,
                   session_state, tmp_file, arg, ret>>

\* extract_sections()
ExtractSections ==
    /\ Calling("extract_sections")
    /\ results' = DictSet(results, "sections", extract_sections(text))
    /\ Returns("extract_sections")
    /\ UNCHANGED <<program, driver, pdf, model, response, text, report, files,
                   session_state, tmp_file, arg, ret>>

\* check_rules(): self.results['sections'] raises KeyError when the key is absent
CheckRules ==
    /\ Calling("check_rules")
    /\ IF "sections" \in DOMAIN results
       THEN /\ results' = DictSet(results, "rule_checks",
                                  check_rules(results["sections"], text))
            /\ Returns("check_rules")
       ELSE /\ Raises("KeyError")
            /\ UNCHANGED results
    /\ UNCHANGED <<program, driver, pdf, model, response, text, report, files,
                   session_state, tmp_file, arg, ret>>

\* generate_report(), called by run() or by a client; main_run.py's also writes
\* the JSON file and the summary file
GenerateReport ==
    /\ Calling("generate_report")
    /\ report' = <<generate_report(program, model, text, results, Now)>>
    /\ files' = IF program = "main_run" THEN WrittenFiles(model, text, results) ELSE files
    /\ Returns("generate_report")
    /\ UNCHANGED <<program, driver, pdf, model, response, text, results,
                   session_state, tmp_file, arg, ret>>

\* app.py, main(): a file is uploaded and saved to a temporary file, the button
\* is pressed, the analyzer is made for the model chosen in the sidebar
AppStart ==
    /\ driver = "main" /\ pc = "idle" /\ count < MaxAnalyses
    /\ \E upload \in Uploads, mdl \in Models :
        /\ pdf' = upload
        /\ model' = mdl
    /\ tmp_file' = "exists"
    /\ NewAnalyzer
    /\ count' = count + 1
    /\ pc' = "extract_text"
    /\ raised' = "none"
    /\ UNCHANGED <<program, driver, response, report, files, session_state, arg, ret>>

\* app.py, main(): the analyzer and its report are stored in the session state
AppStore ==
    /\ driver = "main" /\ pc = "store"
    /\ LET rep == generate_report(program, model, text, results, Now)
       IN  /\ report' = <<rep>>
           /\ session_state' =
                DictSet(DictSet(session_state, "analyzer",
                                [model |-> model, text |-> text, results |-> results]),
                        "report", rep)
    /\ pc' = "finally"
    /\ UNCHANGED <<program, driver, count, pdf, model, response, text, results, files,
                   raised, tmp_file, arg, ret>>

\* app.py, main(): the finally clause deletes the temporary file
AppFinally ==
    /\ driver = "main" /\ pc = "finally"
    /\ tmp_file' = "deleted"
    /\ pc' = "idle"
    /\ UNCHANGED <<program, driver, count, pdf, model, response, text, results, report,
                   files, raised, session_state, arg, ret>>

Next ==
    \/ MainRunStart
    \/ ExtractText
    \/ Summarize
    \/ SummarizeRaises
    \/ ExtractSections
    \/ CheckRules
    \/ GenerateReport
    \/ AppStart
    \/ AppStore
    \/ AppFinally

Spec == Init /\ [][Next]_vars

----------------------------------------------------------------------------
(* extract_text on its own: every short text of line feeds, spaces and a letter *)

\* the characters of a raw page
MaxRawLen == 5

Strs(alphabet, n) == UNION {[1..k -> alphabet] : k \in 0..n}

RawPages ==
    {<<raw>> : raw \in Strs({LF, " ", "a"}, MaxRawLen)}
      \cup {<<first, second>> : first \in Strs({LF, " ", "a"}, MaxRawLen \div 2),
                                second \in Strs({LF, " ", "a"}, MaxRawLen \div 2)}

InitNormalize ==
    /\ program = "main_run" /\ driver = "client" /\ pc = "client"
    /\ pdf \in {[kind |-> "ok", pages |-> p] : p \in RawPages}
    /\ count = 0
    /\ model = DefaultModel
    /\ response = <<>>
    /\ text = <<>>
    /\ results = EmptyDict
    /\ report = <<>>
    /\ files = EmptyDict
    /\ raised = "none"
    /\ session_state = EmptyDict
    /\ tmp_file = "none"
    /\ arg = <<>>
    /\ ret = <<>>

\* the two re.sub calls applied to self.text once more
NormalizeAgain ==
    /\ pc = "client" /\ count = 1 /\ raised = "none"
    /\ arg' = text
    /\ ret' = NormalizeText(text)
    /\ pc' = "applied"
    /\ UNCHANGED <<program, driver, count, pdf, model, response, text, results, report,
                   files, raised, session_state, tmp_file>>

NextNormalize ==
    \/ count = 0 /\ ExtractText
    \/ NormalizeAgain

SpecNormalize == InitNormalize /\ [][NextNormalize]_vars

----------------------------------------------------------------------------
(* summarize among the other calls, on an analyzer whose extract_text has run;
   the collaborator's answer, arg, is any short response of dashes, spaces,
   line feeds and a letter *)

\* the characters of a response
MaxResponseLen == 4

InitSummary ==
    /\ program = "main_run" /\ driver = "client" /\ pc = "client"
    /\ pdf = [kind |-> "ok", pages |-> <<PageEligibility>>]
    /\ text = extract_text(pdf.pages)
    /\ count = 0
    /\ model = DefaultModel
    /\ response = <<>>
    /\ results = EmptyDict
    /\ report = <<>>
    /\ files = EmptyDict
    /\ raised = "none"
    /\ session_state = EmptyDict
    /\ tmp_file = "none"
    /\ arg \in Strs({"-", " ", LF, "a"}, MaxResponseLen)
    /\ ret = <<>>

SummarizeAny == SummarizeWith({arg})

NextSummary ==
    \/ SummarizeAny
    \/ ExtractSections
    \/ CheckRules

SpecSummary == InitSummary /\ [][NextSummary]_vars

----------------------------------------------------------------------------
(* check_rules and _find_evidence on their own *)

\* the categories a sections mapping may lack
MaxMissing == 2

Repeat(c, n) == [i \in 1..n |-> c]

\* snippets: empty, the sentinel, just over and just at the 50 characters, a long
\* one that says NOT Found, and four that hold "Section 9"
Snippets ==
    << <<>>,
       NotFound,
       Repeat("x", ContentThreshold + 1),
       Repeat("x", ContentThreshold),
       Repeat("x", ContentThreshold) \o <<" ","N","O","T"," ","F","o","u","n","d">>,
       <<"s","e","e"," ","S","e","c","t","i","o","n"," ","9"," ">> \o Repeat("x", ContentThreshold),
       <<"P","a","r","t"," ","1"," ","a","n","d"," ","S","e","c","t","i","o","n"," ","9"," ">> \o Repeat("x", ContentThreshold),
       <<"S","e","c","t","i","o","n"," ","9","9">>,
       <<"n","o","t"," ","f","o","u","n","d"," ","i","n"," ","S","e","c","t","i","o","n"," ","9">> >>

\* documents: empty, one with headers of two categories, one whose header has no
\* separator
RuleDocs ==
    { <<>>,
      <<"S","e","c","t","i","o","n"," ","3"," ","-"," ","P","e","n","a","l","t","i","e","s",
        LF,"P","a","r","t"," ","4"," ",ENDASH," ","R","e","c","o","r","d","s">>,
      <<"S","e","c","t","i","o","n"," ","5"," ","D","e","f","i","n","i","t","i","o","n","s">> }

\* sections mappings: every category but at most MaxMissing of them, category
\* number k holding snippet number k + shift
CategoryOrder ==
    <<"definitions", "obligations", "responsibilities", "eligibility", "payments",
      "penalties", "record_keeping">>
SectionsMappings ==
    {[c \in present |->
        Snippets[(((CHOOSE k \in 1..Len(CategoryOrder) : CategoryOrder[k] = c) + shift)
                    % Len(Snippets)) + 1]] :
        present \in {d \in SUBSET Categories : Cardinality(Categories \ d) <= MaxMissing},
        shift \in 1..Len(Snippets)}

InitRules ==
    /\ program = "main_run" /\ driver = "client"
    /\ text \in RuleDocs
    /\ \/ /\ pc = "client"
          /\ results \in {DictSet(EmptyDict, "sections", m) : m \in SectionsMappings}
          /\ arg = <<>>
       \/ /\ pc = "_find_evidence"
          /\ results = EmptyDict
          /\ arg \in [snippet : {Snippets[k] : k \in 1..Len(Snippets)},
                       section_type : Categories \cup {"other"}]
    /\ pdf = [kind |-> "ok", pages |-> <<text>>]
    /\ count = 0
    /\ model = DefaultModel
    /\ response = <<>>
    /\ report = <<>>
    /\ files = EmptyDict
    /\ raised = "none"
    /\ session_state = EmptyDict
    /\ tmp_file = "none"
    /\ ret = <<>>

\* _find_evidence(text, section_type)
FindEvidence ==
    /\ pc = "_find_evidence"
    /\ ret' = _find_evidence(arg.snippet, arg.section_type, text)
    /\ pc' = "found"
    /\ UNCHANGED <<program, driver, count, pdf, model, response, text, results, report,
                   files, raised, session_state, tmp_file, arg>>

NextRules ==
    \/ count = 0 /\ CheckRules
    \/ FindEvidence

SpecRules == InitRules /\ [][NextRules]_vars

----------------------------------------------------------------------------
(* extract_sections on its own, over documents put together from fragments *)

\* the fragments a document is made of, at most
MaxFragments == 2

\* fragments: keywords of several categories in both cases, a filler longer than
\* the half window, and a run of capital dotted I, which lower() turns into two
\* characters each
Fragments ==
    { <<"f","i","n","e">>,
      <<"a"," ","P","e","n","a","l","t","y"," ","m","u","s","t"," ">>,
      <<" ","m","e","a","n","s"," ">>,
      <<"S","e","c","t","i","o","n"," ","9"," ","r","e","c","o","r","d","s">>,
      Repeat("x", HalfWindow + 1),
      Repeat(IDOT, HalfWindow + 4) }

RECURSIVE Concat(_)
Concat(parts) == IF Len(parts) = 0 THEN <<>> ELSE Head(parts) \o Concat(Tail(parts))

Documents == {Concat(parts) : parts \in Strs(Fragments, MaxFragments)}

InitSections ==
    /\ program \in {"main_run", "app"} /\ driver = "client" /\ pc = "client"
    /\ pdf \in {[kind |-> "ok", pages |-> <<d>>] : d \in Documents}
    /\ text = extract_text(pdf.pages)
    /\ count = 0
    /\ model = DefaultModel
    /\ response = <<>>
    /\ results = EmptyDict
    /\ report = <<>>
    /\ files = EmptyDict
    /\ raised = "none"
    /\ session_state = EmptyDict
    /\ tmp_file = "none"
    /\ arg = <<>>
    /\ ret = <<>>

NextSections ==
    \/ ExtractSections
    \/ CheckRules

SpecSections == InitSections /\ [][NextSections]_vars

----------------------------------------------------------------------------
(* Claims *)

\* a pipeline run is over: run() has returned or died, or the shell is past the
\* stages of an analysis
RunOver ==
    \/ driver = "run" /\ pc \in {"done", "aborted"}
    \/ driver = "main" /\ pc \in {"finally", "idle"} /\ count > 0

\* every rule of the list failed, with confidence 40 and no evidence
AllRulesFail(checks) ==
    /\ Len(checks) = Len(rules)
    /\ \A k \in 1..Len(checks) :
        /\ checks[k].rule = rules[k][1]
        /\ checks[k].status = "fail"
        /\ checks[k].confidence = 40
        /\ checks[k].evidence = NoEvidenceFound

\* C1: when the summarization call raised during a pipeline run, the run is not
\* aborted: it ends with a report of zero bullets that carries the sections and
\* the rule checks of the document.
C1_SummarizeFailureDoesNotAbort ==
    (driver \in {"run", "main"} /\ raised = "ResponseError" /\ RunOver) =>
        /\ pc # "aborted"
        /\ Len(report) = 1
        /\ report[1].task2_summary = <<>>
        /\ report[1].task3_sections = extract_sections(text)
        /\ report[1].task4_rule_checks = check_rules(extract_sections(text), text)

\* C4: with an empty document text, extract_sections gives "Not found" for all
\* 7 categories, and check_rules then returns, without a KeyError, 6 rules that
\* all fail with confidence 40 and evidence "No evidence found".
C4_EmptyDocument ==
    Len(text) = 0 =>
        /\ "sections" \in DOMAIN results =>
              /\ DOMAIN results["sections"] = Categories
              /\ Cardinality(Categories) = 7
              /\ \A c \in Categories : results["sections"][c] = NotFound
              /\ raised # "KeyError"
        /\ "rule_checks" \in DOMAIN results => AllRulesFail(results["rule_checks"])

\* C4's case: run() went through a readable PDF without text to the end
C4_Witness ==
    /\ driver = "run" /\ pc = "done"
    /\ pdf.kind = "ok" /\ Len(text) = 0
    /\ "rule_checks" \in DOMAIN results

\* C7: check_rules never raises; on an analyzer whose extract_sections has not
\* run it returns 6 failing results.
C7_CheckRulesNeverRaises ==
    /\ raised # "KeyError"
    /\ ("rule_checks" \in DOMAIN results /\ "sections" \notin DOMAIN results)
          => AllRulesFail(results["rule_checks"])

\* the fields every report has, and their values
ReportBody(r) ==
    /\ DOMAIN r = {"metadata", "task1_extraction", "task2_summary", "task3_sections",
                   "task4_rule_checks"}
    /\ r.task1_extraction.status = "completed"
    /\ r.task1_extraction.characters_extracted = Len(text)
    /\ r.metadata.model = model
    /\ r.task2_summary = (IF "summary" \in DOMAIN results THEN results["summary"] ELSE <<>>)
    /\ r.task3_sections =
          (IF "sections" \in DOMAIN results THEN results["sections"] ELSE EmptyDict)
    /\ r.task4_rule_checks =
          (IF "rule_checks" \in DOMAIN results THEN results["rule_checks"] ELSE <<>>)

NoRun(s, c, n) == ~\E i \in 1..(Len(s) - n + 1) : \A j \in 0..(n - 1) : s[i + j] = c

\* C9: the text extract_text leaves holds no run of 3 or more line feeds and no
\* run of 2 or more spaces, and normalizing it again returns it unchanged.
C9_NormalizeIdempotent ==
    (count >= 1 /\ raised = "none") =>
        /\ NoRun(text, LF, 3)
        /\ NoRun(text, " ", 2)
        /\ pc = "applied" => ret = text

\* C9's case: a page whose runs were collapsed, normalized a second time
C9_Witness ==
    /\ pc = "applied"
    /\ Len(pdf.pages) = 1 /\ ~NoRun(pdf.pages[1], LF, 3) /\ ~NoRun(pdf.pages[1], " ", 2)
    /\ str_contains(text, <<LF, LF>>) /\ str_contains(text, <<" ">>)

\* the lines of a response: line b runs from after the break b (0, or the index
\* of a line feed) to before the next break
Breaks(resp) == {0} \cup {i \in 1..Len(resp) : resp[i] = LF}
LineAfter(resp, b) ==
    LET next == {i \in (b + 1)..Len(resp) : resp[i] = LF}
    IN  SubSeq(resp, b + 1, IF next = {} THEN Len(resp) ELSE Least(next) - 1)
\* the line without the whitespace around it
Trimmed(line) ==
    LET inked == {i \in 1..Len(line) : line[i] \notin Whitespace}
    IN  IF inked = {} THEN <<>>
        ELSE SubSeq(line, Least(inked), CHOOSE x \in inked : \A y \in inked : y <= x)
\* the breaks whose trimmed line starts with '-'
BulletBreaks(resp) ==
    {b \in Breaks(resp) :
        LET t == Trimmed(LineAfter(resp, b)) IN Len(t) > 0 /\ t[1] = "-"}
\* bullets is the list of those trimmed lines, in the order of the response
IsBulletLines(bullets, resp) ==
    /\ Len(bullets) = Cardinality(BulletBreaks(resp))
    /\ \A b \in BulletBreaks(resp) :
          bullets[Cardinality({x \in BulletBreaks(resp) : x <= b})]
            = Trimmed(LineAfter(resp, b))

\* a step of summarize that returned
SummarizeStep ==
    /\ "summary" \in DOMAIN results'
    /\ response' # response \/ "summary" \notin DOMAIN results

ClaimedRules ==
    << <<"Act must define key terms", "definitions">>,
       <<"Act must specify eligibility criteria", "eligibility">>,
       <<"Act must specify responsibilities of the administering authority",
         "responsibilities">>,
       <<"Act must include enforcement or penalties", "penalties">>,
       <<"Act must include payment calculation or entitlement structure", "payments">>,
       <<"Act must include record-keeping or reporting requirements",
         "record_keeping">> >>

\* the snippet of a category in a mapping, empty when the mapping lacks it
SnippetOf(sections, category) ==
    IF category \in DOMAIN sections THEN sections[category] ELSE <<>>

\* s says "not found", in any case of the letters
SaysNotFound(s) ==
    \E i \in 1..(Len(s) - Len(not_found_lower) + 1) :
        \A j \in 1..Len(not_found_lower) : FoldChar(s[i + j - 1]) = not_found_lower[j]

\* C2: check_rules returns exactly 6 results in the fixed order of the rules;
\* a rule passes with confidence 85 exactly when its category's snippet is
\* longer than 50 characters and does not say "not found", and fails with
\* confidence 40 otherwise.
C2_RuleVerdicts ==
    "rule_checks" \in DOMAIN results =>
        LET checks == results["rule_checks"]
        IN  /\ Len(checks) = 6
            /\ \A k \in 1..6 :
                LET snippet == SnippetOf(results["sections"], ClaimedRules[k][2])
                    passes == Len(snippet) > 50 /\ ~SaysNotFound(snippet)
                IN  /\ checks[k].rule = ClaimedRules[k][1]
                    /\ passes => checks[k].status = "pass" /\ checks[k].confidence = 85
                    /\ ~passes => checks[k].status = "fail" /\ checks[k].confidence = 40
                    /\ checks[k].confidence \in {85, 40}

\* C2's case: one result list with a pass, a fail at exactly 50 characters and a
\* fail of a long snippet that says NOT Found
C2_Witness ==
    /\ "rule_checks" \in DOMAIN results
    /\ \E k \in 1..6 : results["rule_checks"][k].status = "pass"
    /\ \E k \in 1..6 :
          /\ Len(SnippetOf(results["sections"], ClaimedRules[k][2])) = 50
          /\ results["rule_checks"][k].status = "fail"
    /\ \E k \in 1..6 :
          /\ Len(SnippetOf(results["sections"], ClaimedRules[k][2])) > 50
          /\ results["rule_checks"][k].status = "fail"

\* a result that failed closed
FailedClosed(check) ==
    check.status = "fail" /\ check.confidence = 40 /\ check.evidence = NoEvidenceFound

\* C6: check_rules does not raise on a mapping that lacks a rule's category:
\* that rule fails with confidence 40 and "No evidence found", and taking a
\* category's entry away changes the result of that category's rule only.
C6_MissingCategoryFailsClosed ==
    ("sections" \in DOMAIN results /\ count > 0) =>
        /\ raised = "none"
        /\ "rule_checks" \in DOMAIN results
        /\ LET checks == results["rule_checks"]
                sections == results["sections"]
            IN  /\ \A k \in 1..Len(ClaimedRules) :
                      ClaimedRules[k][2] \notin DOMAIN sections => FailedClosed(checks[k])
                /\ \A gone \in DOMAIN sections :
                      LET less == [c \in DOMAIN sections \ {gone} |-> sections[c]]
                          again == check_rules(less, text)
                      IN  \A k \in 1..Len(ClaimedRules) :
                            IF ClaimedRules[k][2] = gone THEN FailedClosed(again[k])
                            ELSE again[k] = checks[k]

\* C6's case: a mapping without the penalties entry whose other rules pass and
\* fail
C6_Witness ==
    /\ "rule_checks" \in DOMAIN results
    /\ "penalties" \notin DOMAIN results["sections"]
    /\ \E k \in 1..6 : results["rule_checks"][k].status = "pass"
    /\ \E k \in 1..6 :
          /\ ClaimedRules[k][2] \in DOMAIN results["sections"]
          /\ results["rule_checks"][k].status = "fail"

\* the text "Section 9"
SectionNine == <<"S","e","c","t","i","o","n"," ","9">>

\* s[first..last] is a citation: Section, Part or Article in any case of the
\* letters, whitespace, and all the digits that follow it
CitationAt(s, first, last) ==
    \E k \in 1..Len(CitationLabels) :
        LET word == CitationLabels[k]
        IN  /\ WordAt(s, first, word)
            /\ \E digit \in (first + Len(word) + 1)..last :
                  /\ \A i \in (first + Len(word))..(digit - 1) : s[i] \in Whitespace
                  /\ \A i \in digit..last : s[i] \in Digits
            /\ last <= Len(s)
            /\ (last = Len(s) \/ s[last + 1] \notin Digits)

\* C3 as claimed: whenever the snippet contains "Section 9", _find_evidence
\* returns exactly "Section 9".
C3_SectionNineAlways ==
    (pc = "found" /\ str_contains(arg.snippet, SectionNine)) => ret = SectionNine

\* C3, amended: for a snippet that contains "Section 9", whatever the category
\* and the document: if the snippet says "not found" the result is "No evidence
\* found"; otherwise it is the first citation of the snippet with all its
\* digits, never a header of the document nor "Evidence found in document", so
\* it is exactly "Section 9" when that is the snippet's first citation and no
\* digit follows it.
C3_FirstCitationWins ==
    (pc = "found" /\ str_contains(arg.snippet, SectionNine)) =>
        IF SaysNotFound(arg.snippet) THEN ret = NoEvidenceFound
        ELSE \E first \in 1..Len(arg.snippet), last \in 1..Len(arg.snippet) :
               /\ CitationAt(arg.snippet, first, last)
               /\ \A i \in 1..(first - 1), j \in 1..Len(arg.snippet) :
                     ~CitationAt(arg.snippet, i, j)
               /\ ret = SubSeq(arg.snippet, first, last)
               /\ (SubSeq(arg.snippet, first, first + 8) = SectionNine /\ last = first + 8)
                     => ret = SectionNine

\* C3's case: "Section 9" came out of a snippet although the document has a
\* header of the category
C3_Witness ==
    /\ pc = "found" /\ ret = SectionNine
    /\ arg.section_type = "penalties"
    /\ SearchHeader(text, section_names["penalties"]).found

\* the seven categories as the specification lists them
ClaimedCategories ==
    {"definitions", "obligations", "responsibilities", "eligibility", "payments",
     "penalties", "record_keeping"}

\* a keyword of the category occurs in the lowered document
KeywordOccurs(category, text_lower) ==
    \E k \in 1..Len(section_types[category]) :
        str_contains(text_lower, section_types[category][k])

\* C5: extract_sections returns a mapping with exactly the 7 categories as
\* keys, every value either "Not found" or a non-empty string, and a value is
\* "Not found" exactly when no keyword of the category occurs in the document.
C5_SectionsTotal ==
    "sections" \in DOMAIN results =>
        LET sections == results["sections"]
            text_lower == str_lower(text)
        IN  /\ DOMAIN sections = ClaimedCategories
            /\ \A c \in ClaimedCategories :
                  /\ sections[c] = NotFound \/ Len(sections[c]) > 0
                  /\ sections[c] = NotFound <=> ~KeywordOccurs(c, text_lower)

\* the keyword occurs in doc at the 1-based index i, whatever the case of the
\* letters of doc
OccursIgnoringCase(doc, i, keyword) ==
    /\ i >= 1
    /\ i + Len(keyword) - 1 <= Len(doc)
    /\ \A j \in 1..Len(keyword) : LowerChar(doc[i + j - 1]) = <<keyword[j]>>

\* the reference windows of a category, one per keyword that occurs, in table
\* order: p is the 0-based offset of the keyword's first occurrence in doc
RECURSIVE ReferenceWindows(_, _)
ReferenceWindows(doc, keywords) ==
    IF Len(keywords) = 0 THEN <<>>
    ELSE LET hits == {i \in 1..Len(doc) : OccursIgnoringCase(doc, i, Head(keywords))}
             p == Least(hits) - 1
         IN  (IF hits = {} THEN <<>>
              ELSE <<SubSeq(doc, Max(0, p - 200) + 1, Min(Len(doc), p + 200))>>)
               \o ReferenceWindows(doc, Tail(keywords))

\* C11: for every document and category, the snippet is the reference
\* construction: the windows text[max(0, p-200) : min(len(text), p+200)] around
\* the first occurrence p of each keyword that occurs, the first 2 of them in
\* keyword order joined with " ... "; each such window is at most 400
\* characters long and holds its keyword.
C11_SnippetIsReference ==
    "sections" \in DOMAIN results =>
        \A c \in DOMAIN results["sections"] :
            LET windows == ReferenceWindows(text, section_types[c])
                kept == SubSeq(windows, 1, Min(2, Len(windows)))
            IN  Len(windows) > 0 =>
                  /\ results["sections"][c] = str_join(<<" ", ".", ".", ".", " ">>, kept)
                  /\ \A w \in 1..Len(kept) :
                        /\ Len(kept[w]) <= 400
                        /\ \E k \in 1..Len(section_types[c]), i \in 1..Len(kept[w]) :
                              OccursIgnoringCase(kept[w], i, section_types[c][k])

\* the characters s[from..to] are whitespace around one hyphen or en dash; or,
\* where the separator may be absent, whitespace only
SeparatorBetween(s, from, to, optional) ==
    \/ \E sep \in from..to :
          /\ s[sep] \in {"-", ENDASH}
          /\ \A i \in (from..to) \ {sep} : s[i] \in Whitespace
    \/ optional /\ \A i \in from..to : s[i] \in Whitespace

\* s[first..last] is a header: Section or Part, whitespace, digits, the
\* separator and one of the names, in any case of the letters
HeaderAt(s, first, last, names, optional) ==
    \E k \in 1..Len(HeaderLabels) :
        /\ WordAt(s, first, HeaderLabels[k])
        /\ \E d1 \in (first + Len(HeaderLabels[k]) + 1)..Len(s) :
              /\ \A i \in (first + Len(HeaderLabels[k]))..(d1 - 1) : s[i] \in Whitespace
              /\ \E d2 \in d1..Len(s) :
                    /\ \A i \in d1..d2 : s[i] \in Digits
                    /\ \E m \in (d2 + 1)..(Len(s) + 1), n \in 1..Len(names) :
                          /\ SeparatorBetween(s, d2 + 1, m - 1, optional)
                          /\ WordAt(s, m, names[n])
                          /\ last = m + Len(names[n]) - 1

\* the header names of a category as the specification gives them: none for a
\* category that is not in the table
ClaimedHeaderNames(category) ==
    IF category \in DOMAIN section_names THEN section_names[category] ELSE <<>>

\* _find_evidence was called with a snippet that is not empty, does not say
\* "not found" and holds no citation
HeaderTierCase ==
    /\ pc = "found"
    /\ Len(arg.snippet) > 0
    /\ ~SaysNotFound(arg.snippet)
    /\ \A i \in 1..Len(arg.snippet), j \in 1..Len(arg.snippet) :
          ~CitationAt(arg.snippet, i, j)

\* the result is the leftmost header of the document, trimmed, or "Evidence
\* found in document" when the document has no header
HeaderOrFallback(names, optional) ==
    LET starts == {i \in 1..Len(text) :
                     \E j \in (i - 1)..Len(text) : HeaderAt(text, i, j, names, optional)}
    IN  IF starts = {} THEN ret = EvidenceFoundInDocument
        ELSE \E j \in (Least(starts) - 1)..Len(text) :
               /\ HeaderAt(text, Least(starts), j, names, optional)
               /\ ret = str_strip(SubSeq(text, Least(starts), j))

\* C12 as claimed: in the header tier the separator between the digits and the
\* category's header name may be present or absent.
C12_SeparatorOptional ==
    HeaderTierCase => HeaderOrFallback(ClaimedHeaderNames(arg.section_type), TRUE)

\* C12, amended: in the header tier _find_evidence returns the leftmost match
\* in the document of Section or Part, whitespace, digits, a hyphen or en dash
\* (with optional whitespace on both sides; the separator is required) and the
\* category's header name, trimmed, and "Evidence found in document" when
\* there is no such match; for a category without header names the name is
\* empty, so the match ends after the separator.
C12_SeparatorRequired ==
    HeaderTierCase =>
        HeaderOrFallback(IF arg.section_type \in DOMAIN section_names
                         THEN section_names[arg.section_type] ELSE << <<>> >>, FALSE)

\* C12's case: a header with an en dash was found for the category of the call
C12_Witness ==
    /\ HeaderTierCase
    /\ arg.section_type = "record_keeping"
    /\ ret = <<"P","a","r","t"," ","4"," ",ENDASH," ","R","e","c","o","r","d","s">>

\* C13: in every result of check_rules a rule that passes never carries the
\* evidence "No evidence found": that evidence comes with status fail and
\* confidence 40 only.
C13_VerdictMatchesEvidence ==
    "rule_checks" \in DOMAIN results =>
        \A k \in 1..Len(results["rule_checks"]) :
            LET check == results["rule_checks"][k]
            IN  /\ check.status = "pass" => check.evidence # NoEvidenceFound
                /\ check.evidence = NoEvidenceFound =>
                      check.status = "fail" /\ check.confidence = 40

\* C13's case: one result list with a passing rule that carries a citation, a
\* failing rule with "No evidence found" although its snippet is longer than 50
\* characters, and a failing rule that carries a citation
C13_Witness ==
    /\ "rule_checks" \in DOMAIN results
    /\ \E k \in 1..6 :
          /\ results["rule_checks"][k].status = "pass"
          /\ results["rule_checks"][k].evidence = SectionNine
    /\ \E k \in 1..6 :
          /\ Len(SnippetOf(results["sections"], ClaimedRules[k][2])) > 50
          /\ results["rule_checks"][k].evidence = NoEvidenceFound
    /\ \E k \in 1..6 :
          /\ results["rule_checks"][k].status = "fail"
          /\ results["rule_checks"][k].evidence \notin {NoEvidenceFound, EvidenceFoundInDocument}

\* the steps of one analysis of the interactive shell, in order: what may
\* follow what when no exception is raised
ShellOrder ==
    {<<"idle", "extract_text">>, <<"extract_text", "summarize">>,
     <<"summarize", "extract_sections">>, <<"extract_sections", "check_rules">>,
     <<"check_rules", "store">>, <<"store", "finally">>, <<"finally", "idle">>}

ShellStages == {"extract_text", "summarize", "extract_sections", "check_rules"}

\* the analyzer holds the outcome of all four stages on the uploaded file
AllStagesDone ==
    /\ pdf.kind = "ok"
    /\ text = extract_text(pdf.pages)
    /\ DOMAIN results = {"summary", "sections", "rule_checks"}
    /\ results["summary"] = summarize(response)
    /\ results["sections"] = extract_sections(text)
    /\ results["rule_checks"] = check_rules(results["sections"], text)

\* C14: in the interactive shell the stages run in the order extract_text,
\* summarize, extract_sections, check_rules; the session state changes only in
\* the step that follows the four completed stages, when no exception was
\* raised, and then holds the report of this analysis; a stage that raises ends
\* the analysis in the finally clause with the session state (and a report
\* stored before) unchanged; and every analysis, completed or failed, ends with
\* its temporary file deleted.
C14_ReportStoredAfterAllStages ==
    [][driver = "main" =>
        /\ pc' # pc =>
              \/ <<pc, pc'>> \in ShellOrder /\ raised' = "none"
              \/ pc \in ShellStages /\ pc' = "finally" /\ raised' # "none"
              \/ pc = "finally" /\ pc' = "idle"
        /\ session_state' # session_state =>
              /\ pc = "store" /\ raised = "none" /\ raised' = "none"
              /\ AllStagesDone
              /\ DOMAIN session_state' = {"analyzer", "report"}
              /\ session_state'["report"].metadata.model = model
              /\ session_state'["report"].task2_summary = results["summary"]
              /\ session_state'["report"].task3_sections = results["sections"]
              /\ session_state'["report"].task4_rule_checks = results["rule_checks"]
        /\ raised' # "none" => session_state' = session_state
        /\ pc \in ShellStages \cup {"store"} => tmp_file = "exists" /\ tmp_file' = "exists"
        /\ pc' = "idle" => tmp_file' = (IF count' = 0 THEN "none" ELSE "deleted")]_vars

\* C14's case: a second analysis failed after a first one had stored its
\* report: the report of the first is still there and the temporary file of the
\* second is deleted
C14_Witness ==
    /\ driver = "main" /\ pc = "idle" /\ count = 2
    /\ raised # "none"
    /\ tmp_file = "deleted"
    /\ "report" \in DOMAIN session_state
    /\ session_state["report"].task3_sections # DictGet(results, "sections", EmptyDict)

====
